---- MODULE Spec2Model ----
(***************************************************************************)
(* Model of the object-reference pickling scheme of src/utils/utils.py:    *)
(* to_pickle / from_pickle, their two module-level directory caches        *)
(* (_FROM_MODEL_MAP, _TO_MODEL_MAP), the ContentType directory they are    *)
(* enumerated from and the entity storage the decoder fetches from.        *)
(***************************************************************************)
EXTENDS Integers, Sequences, FiniteSets, TLC

VARIABLES
    _FROM_MODEL_MAP, \* encoder cache: model name -> natural key (defaultdict(str)), or None
    _TO_MODEL_MAP,   \* decoder cache: natural key -> model class (defaultdict(str)), or None
    directory,       \* the rows of the ContentType table (external directory service)
    storage,         \* the entity rows that exist in the database
    enumerations,    \* how often each cache has enumerated ContentType.objects.all()
    observed,        \* model name -> the set of keys encoder lookups have returned for it
    held,            \* the value the caller holds and passes to to_pickle
    call,            \* the most recent call of a function of the module and its outcome
    reactor,         \* the Twisted reactor: its clock, its delayed calls, the deferred of delay()
    threads,         \* the threads inside to_pickle: where each one is, and what it holds
    heap             \* the container objects of the process, by address

vars == <<_FROM_MODEL_MAP, _TO_MODEL_MAP, directory, storage, enumerations, observed, held, call,
          reactor, threads, heap>>
\* what the calls of a single caller of to_pickle, from_pickle, dbref and crop leave alone
others == <<reactor, threads, heap>>

----------------------------------------------------------------------------
(* Bounds of the model. *)

MaxLen == 3    \* longest tuple / list of plain atoms drawn as an input
MaxEnum == 2   \* the enumeration counters stop counting here
MaxStr == 3    \* longest string given to dbref
MaxText == 4   \* longest text given to crop
MaxWidth == 5  \* largest width given to crop
MaxDelay == 2  \* longest delay given to delay, in seconds
MaxClock == 3  \* the reactor's clock stops here
MaxObjs == 3   \* no more cache objects than this are created by racing threads

----------------------------------------------------------------------------
(* Python values.  Every value is a record tagged with its Python type.    *)

PyInt(n) == [t |-> "int", i |-> n]
\* the float n + 0.5
PyFloat(n) == [t |-> "float", f |-> n]
PyBool(b) == [t |-> "bool", b |-> b]
PyStr(s) == [t |-> "str", s |-> s]
None == [t |-> "none"]
\* sub is TRUE for an instance of a subclass of tuple / list / dict
PyTuple(q) == [t |-> "tuple", items |-> q, sub |-> FALSE]
PyList(q) == [t |-> "list", items |-> q, sub |-> FALSE]
PyDict(f) == [t |-> "dict", d |-> f, sub |-> FALSE]
\* the marker for an attribute an object does not have
NoAttr == [t |-> "noattr"]
\* an opaque object: its class <<module, name>>, its id and dbobj attributes
PyObj(c, i, d) == [t |-> "obj", cls |-> c, id |-> i, dbobj |-> d]
\* a class object, as stored in _TO_MODEL_MAP
PyClass(c) == [t |-> "class", cls |-> c]
\* a raised exception
Raise(e) == [t |-> "raise", exc |-> e]

\* Python truth value of a value (bool(v))
Truthy(v) ==
    CASE v.t = "int" -> v.i # 0
      [] v.t = "float" -> TRUE
      [] v.t = "bool" -> v.b
      [] v.t = "str" -> v.s # ""
      [] v.t = "none" -> FALSE
      [] v.t = "noattr" -> FALSE
      [] v.t \in {"tuple", "list"} -> Len(v.items) > 0
      [] v.t = "dict" -> DOMAIN v.d # {}
      [] v.t = "defaultdict" -> DOMAIN v.d # {}
      [] OTHER -> TRUE    \* objects, classes, pickled (non-empty) strings

\* a defaultdict(str) holding the mapping m
DefaultDict(m) == [t |-> "defaultdict", d |-> m]
\* the empty mapping
EmptyMap == [k \in {} |-> None]
\* defaultdict(str).__getitem__: the value returned for key k ...
Lookup(m, k) == IF k \in DOMAIN m THEN m[k] ELSE PyStr("")
\* a lookup that inserts nothing, as a plain dict's get(k, '') would
TouchNothing(m, k) == m
\* ... and the mapping afterwards: a missing key is inserted with str() = ''
Touch(m, k) == IF k \in DOMAIN m THEN m ELSE [x \in DOMAIN m \cup {k} |-> IF x = k THEN PyStr("") ELSE m[x]]
\* dict(pairs) / dict.update(pairs): a later pair replaces an earlier one with the same key
RECURSIVE DictOf(_, _)
DictOf(m, pairs) ==
    IF pairs = <<>> THEN m
    ELSE LET k == Head(pairs)[1]
             v == Head(pairs)[2]
         IN  DictOf([x \in DOMAIN m \cup {k} |-> IF x = k THEN v ELSE m[x]], Tail(pairs))

\* the elements of a finite set in a fixed order
RECURSIVE SeqOf(_)
SeqOf(S) == IF S = {} THEN <<>> ELSE LET x == CHOOSE y \in S : TRUE IN <<x>> \o SeqOf(S \ {x})
Reverse(q) == [i \in 1..Len(q) |-> q[Len(q) + 1 - i]]
\* every order in which the elements of S can be enumerated
Orders(S) == {q \in [1..Cardinality(S) -> S] : \A i, j \in 1..Cardinality(S) : i # j => q[i] # q[j]}

----------------------------------------------------------------------------
(* The directory service: Django's ContentType table.                      *)

\* str.lower() on the class names of the model
Lower(name) ==
    CASE name = "Thing" -> "thing"
      [] name = "Widget" -> "widget"
      [] name = "Character" -> "character"
      [] OTHER -> name
\* the installed model classes <<app label, class name>>: two apps define a class Thing
ModelClasses == {<<"a1", "Thing">>, <<"a2", "Thing">>}
\* the ContentType row of a model class: its app label and lower-cased class name
ContentTypeOf(c) == [app_label |-> c[1], model |-> Lower(c[2])]
ContentTypes == {ContentTypeOf(c) : c \in ModelClasses}
\* ContentType.natural_key(): the tuple (app_label, model)
natural_key(ct) == PyTuple(<<PyStr(ct.app_label), PyStr(ct.model)>>)
\* ContentType.model_class(): the installed class of the row, None when there is none
model_class(ct) ==
    IF \E c \in ModelClasses : ContentTypeOf(c) = ct
    THEN PyClass(CHOOSE c \in ModelClasses : ContentTypeOf(c) = ct)
    ELSE None

\* a ContentType row left behind by an app that is no longer installed: it has
\* no model class
StaleType == [app_label |-> "a3", model |-> "gone"]

\* the key the directory holds for a class, '' when the directory does not know it
key_of(c, dir) == IF ContentTypeOf(c) \in dir /\ c \in ModelClasses THEN natural_key(ContentTypeOf(c)) ELSE PyStr("")

----------------------------------------------------------------------------
(* Entities and storage.                                                   *)

\* the model instance of storage row <<class, id>>
Entity(c, n) == PyObj(c, PyInt(n), NoAttr)
\* instances of a1.Thing are typeclassed: row.typeclass is a wrapper object
\* of class game.Character whose dbobj is the row (attribute access is delegated)
HasTypeclass(c) == c = <<"a1", "Thing">>
TypeclassOf(o) == PyObj(<<"game", "Character">>, o.id, o)
\* the rows the database starts with: one instance of each model, with id 1
Rows == {<<c, 1>> : c \in ModelClasses}

----------------------------------------------------------------------------
(* The encoder: to_pickle and its walker iter_db2id.                       *)

\* type(item) as the walkers compare it: a subclass instance has another type
TypeOf(item) == IF item.t \in {"tuple", "list", "dict"} /\ item.sub THEN "subclass" ELSE item.t
\* the tuple (basestring, int, float) both walkers test type(item) against;
\* type() of a string is str or unicode, never basestring
ScalarTypes == {"basestring", "int", "float"}
\* hasattr(item, '__iter__'): containers have it, Python 2 strings do not
HasIter(item) == item.t \in {"tuple", "list", "dict"}
\* iterating a container: the elements of a sequence, the keys of a mapping
\* (a dict may hand out its keys in any order: rev selects one of two)
KeysOf(item, rev) == IF rev THEN Reverse(SeqOf(DOMAIN item.d)) ELSE SeqOf(DOMAIN item.d)
IterOf(item, rev) == IF item.t = "dict" THEN KeysOf(item, rev) ELSE item.items
HasDbobj(o) == o.t = "obj" /\ o.dbobj.t # "noattr"
HasId(o) == o.t = "obj" /\ o.id.t # "noattr"

\* _TO_DBOBJ = lambda o: (hasattr(o, "dbobj") and o.dbobj) or o
_TO_DBOBJ(o) == IF HasDbobj(o) /\ Truthy(o.dbobj) THEN o.dbobj ELSE o
\* _TO_PACKED_DBOBJ = lambda natural_key, dbref: ('__packed_dbobj__', natural_key, dbref)
_TO_PACKED_DBOBJ(nkey, dbref) == PyTuple(<<PyStr("__packed_dbobj__"), nkey, dbref>>)
\* the key iter_db2id looks up in _FROM_MODEL_MAP:
\* hasattr(item, "id") and hasattr(item, '__class__') and item.__class__.__name__.lower()
ModelKeyOf(item) == IF HasId(item) THEN PyStr(Lower(item.cls[2])) ELSE PyBool(FALSE)

\* The walk threads the cache through (a defaultdict lookup may insert) and
\* collects the lookups it made: [val, map, looked].
RECURSIVE iter_db2id(_, _, _)
RECURSIVE db2id_each(_, _, _, _)
\* [iter_db2id(val) for val in q], left to right
db2id_each(q, m, rev, looked) ==
    IF q = <<>> THEN [items |-> <<>>, map |-> m, looked |-> looked]
    ELSE LET h == iter_db2id(Head(q), m, rev)
             r == db2id_each(Tail(q), h.map, rev, looked \cup h.looked)
         IN  [items |-> <<h.val>> \o r.items, map |-> r.map, looked |-> r.looked]
iter_db2id(item, m, rev) ==
    IF TypeOf(item) \in ScalarTypes
    THEN [val |-> item, map |-> m, looked |-> {}]
    ELSE IF TypeOf(item) = "tuple"
    THEN LET r == db2id_each(item.items, m, rev, {})
         IN  [val |-> PyTuple(r.items), map |-> r.map, looked |-> r.looked]
    ELSE IF TypeOf(item) = "dict"
    THEN LET ks == KeysOf(item, rev)
             r == db2id_each([i \in 1..Len(ks) |-> item.d[ks[i]]], m, rev, {})
         IN  [val |-> PyDict([k \in DOMAIN item.d |->
                                 r.items[CHOOSE i \in 1..Len(ks) : ks[i] = k]]),
              map |-> r.map, looked |-> r.looked]
    ELSE IF HasIter(item)
    THEN LET r == db2id_each(IterOf(item, rev), m, rev, {})
         IN  [val |-> PyList(r.items), map |-> r.map, looked |-> r.looked]
    ELSE LET dbobj == _TO_DBOBJ(item)
             k == ModelKeyOf(dbobj)
             nkey == Lookup(m, k)
         IN  [val |-> IF Truthy(nkey) THEN _TO_PACKED_DBOBJ(nkey, dbobj.id) ELSE dbobj,
              map |-> Touch(m, k),
              looked |-> {<<k, nkey>>}]

\* the enumeration at line 537: (c.model, c.natural_key()) for c in ContentType.objects.all()
FromPairs(order) == [i \in 1..Len(order) |-> <<PyStr(order[i].model), natural_key(order[i])>>]
\* the enumeration at line 583: (c.natural_key(), c.model_class()) for c in ContentType.objects.all()
ToPairs(order) == [i \in 1..Len(order) |-> <<natural_key(order[i]), model_class(order[i])>>]

\* a pickled string (a Python 2 str): the opcodes pickle.dumps wrote
Pickled(ops) == [t |-> "pickle", ops |-> ops]
RECURSIVE dumps_ops(_)
RECURSIVE dumps_each(_)
dumps_each(q) == IF q = <<>> THEN <<>> ELSE dumps_ops(Head(q)) \o dumps_each(Tail(q))
\* pickle.dumps: a container is written as MARK, its elements, and the opcode
\* that builds it; anything else is pushed by value
dumps_ops(v) ==
    IF v.t \in {"tuple", "list"}
    THEN <<[op |-> "MARK"]>> \o dumps_each(v.items) \o <<[op |-> v.t, sub |-> v.sub]>>
    ELSE IF v.t = "dict"
    THEN LET ks == SeqOf(DOMAIN v.d)
         IN  <<[op |-> "MARK"]>>
             \o dumps_each([i \in 1..(2 * Len(ks)) |->
                               IF i % 2 = 1 THEN ks[(i + 1) \div 2] ELSE v.d[ks[i \div 2]]])
             \o <<[op |-> "dict", sub |-> v.sub]>>
    ELSE <<[op |-> "PUSH", v |-> v]>>
\* _DUMPS = lambda data: to_str(pickle.dumps(data, pickle.HIGHEST_PROTOCOL))
_DUMPS(data) == Pickled(dumps_ops(data))

\* the topmost MARK of the unpickler's stack
TopMark(stack) == CHOOSE i \in 1..Len(stack) :
                      stack[i].t = "mark" /\ \A j \in (i + 1)..Len(stack) : stack[j].t # "mark"
\* the container an opcode builds from the stack entries above the mark
Build(o, q) ==
    IF o.op = "dict"
    THEN [t |-> "dict",
          d |-> [k \in {q[i] : i \in {j \in 1..Len(q) : j % 2 = 1}} |->
                    q[(CHOOSE i \in 1..Len(q) : i % 2 = 1 /\ q[i] = k) + 1]],
          sub |-> o.sub]
    ELSE [t |-> o.op, items |-> q, sub |-> o.sub]
RECURSIVE loads_ops(_, _)
\* pickle.loads: run the opcodes on a stack, the result is what is left on top
loads_ops(ops, stack) ==
    IF ops = <<>> THEN stack[Len(stack)]
    ELSE LET o == Head(ops)
         IN  IF o.op = "PUSH" THEN loads_ops(Tail(ops), Append(stack, o.v))
             ELSE IF o.op = "MARK" THEN loads_ops(Tail(ops), Append(stack, [t |-> "mark"]))
             ELSE LET i == TopMark(stack)
                  IN  loads_ops(Tail(ops),
                                Append(SubSeq(stack, 1, i - 1),
                                       Build(o, SubSeq(stack, i + 1, Len(stack)))))
\* _LOADS = lambda data: pickle.loads(to_str(data)); anything but a pickled string fails
_LOADS(data) == IF data.t = "pickle" THEN loads_ops(data.ops, <<>>) ELSE Raise("UnpicklingError")

\* a test that leaves `data != False` out: every value differs from False
NeFalseAlways(v) == TRUE
\* data != False, as Python compares: 0 and 0.0 equal False
NeFalse(v) == ~(v = PyBool(FALSE) \/ v = PyInt(0))

\* to_pickle(data, do_pickle, emptypickle) with the cache value fm it starts from
\* (None, or a defaultdict); order is the order ContentType.objects.all() yields
\* its rows in.  Returns [ret, map, looked, enumerated].
to_pickle(data, do_pickle, emptypickle, fm, order, rev) ==
    LET enumerate == ~Truthy(fm)
        m0 == IF enumerate THEN DictOf(EmptyMap, FromPairs(order)) ELSE fm.d
        r == iter_db2id(data, m0, rev)
    IN  [ret |-> IF do_pickle /\ ~(~emptypickle /\ ~Truthy(r.val) /\ NeFalse(r.val))
                 THEN _DUMPS(r.val) ELSE r.val,
         map |-> DefaultDict(r.map),
         looked |-> r.looked,
         enumerated |-> enumerate]

----------------------------------------------------------------------------
(* The decoder: from_pickle and its walker iter_id2db.                     *)

\* _IS_PACKED_DBOBJ = lambda o: type(o)== tuple and len(o)==3 and o[0]=='__packed_dbobj__'
_IS_PACKED_DBOBJ(o) ==
    TypeOf(o) = "tuple" /\ Len(o.items) = 3 /\ o.items[1] = PyStr("__packed_dbobj__")
\* _TO_TYPECLASS = lambda o: (hasattr(o, 'typeclass') and o.typeclass) or o
_TO_TYPECLASS(o) == IF HasTypeclass(o.cls) THEN TypeclassOf(o) ELSE o

\* hash(v) succeeds: needed of a key of _TO_MODEL_MAP
RECURSIVE Hashable(_)
Hashable(v) ==
    IF v.t \in {"list", "dict"} THEN FALSE
    ELSE IF v.t = "tuple" THEN \A i \in 1..Len(v.items) : Hashable(v.items[i])
    ELSE TRUE
\* the integer Django's IntegerField makes of the value given as id=
IdValue(v) ==
    CASE v.t = "int" -> v.i
      [] v.t = "bool" -> IF v.b THEN 1 ELSE 0
      [] v.t = "float" -> v.f
      [] OTHER -> -1
\* cls.objects.get(id=dbref) on what _TO_MODEL_MAP returned for the key
ObjectsGet(cls, dbref, store) ==
    IF cls.t # "class" THEN Raise("AttributeError")      \* '' or None has no .objects
    ELSE IF dbref.t \notin {"int", "bool", "float"} THEN Raise("ValueError")
    ELSE IF <<cls.cls, IdValue(dbref)>> \in store THEN Entity(cls.cls, IdValue(dbref))
    ELSE Raise("DoesNotExist")

\* the token branch with the failed lookup swallowed: None for a missing entity
resolve_packed_swallowing(item, m, store) ==
    IF Truthy(item.items[3])
    THEN IF ~Hashable(item.items[2])
         THEN [val |-> Raise("TypeError"), map |-> m, fetched |-> <<>>]
         ELSE LET cls == Lookup(m, item.items[2])
                  got == ObjectsGet(cls, item.items[3], store)
              IN  [val |-> IF got = Raise("DoesNotExist") THEN None
                           ELSE IF got.t = "raise" THEN got ELSE _TO_TYPECLASS(got),
                   map |-> Touch(m, item.items[2]),
                   fetched |-> IF cls.t = "class" /\ got # Raise("ValueError")
                               THEN <<[cls |-> cls.cls, id |-> item.items[3]]>>
                               ELSE <<>>]
    ELSE [val |-> None, map |-> m, fetched |-> <<>>]
\* the token branch without the test of item[2]: every token is fetched
resolve_packed_unguarded(item, m, store) ==
    IF ~Hashable(item.items[2])
    THEN [val |-> Raise("TypeError"), map |-> m, fetched |-> <<>>]
    ELSE LET cls == Lookup(m, item.items[2])
             got == ObjectsGet(cls, item.items[3], store)
         IN  [val |-> IF got.t = "raise" THEN got ELSE _TO_TYPECLASS(got),
              map |-> Touch(m, item.items[2]),
              fetched |-> IF cls.t = "class" /\ got # Raise("ValueError")
                          THEN <<[cls |-> cls.cls, id |-> item.items[3]]>>
                          ELSE <<>>]
\* the token branch that leaves a token alone when the cache has no class for
\* its type key
resolve_packed_lenient(item, m, store) ==
    IF Truthy(item.items[3])
    THEN IF ~Hashable(item.items[2])
         THEN [val |-> Raise("TypeError"), map |-> m, fetched |-> <<>>]
         ELSE LET cls == Lookup(m, item.items[2])
                  got == ObjectsGet(cls, item.items[3], store)
              IN  [val |-> IF cls.t # "class" THEN item
                           ELSE IF got.t = "raise" THEN got ELSE _TO_TYPECLASS(got),
                   map |-> Touch(m, item.items[2]),
                   fetched |-> IF cls.t = "class" /\ got # Raise("ValueError")
                               THEN <<[cls |-> cls.cls, id |-> item.items[3]]>>
                               ELSE <<>>]
    ELSE [val |-> None, map |-> m, fetched |-> <<>>]
\* lines 592-594, the body of the _IS_PACKED_DBOBJ branch of iter_id2db:
\*   if item[2]: return _TO_TYPECLASS(_TO_MODEL_MAP[item[1]].objects.get(id=item[2]))
\*   return None
resolve_packed(item, m, store) ==
    IF Truthy(item.items[3])
    THEN IF ~Hashable(item.items[2])
         THEN [val |-> Raise("TypeError"), map |-> m, fetched |-> <<>>]
         ELSE LET cls == Lookup(m, item.items[2])
                  got == ObjectsGet(cls, item.items[3], store)
              IN  [val |-> IF got.t = "raise" THEN got ELSE _TO_TYPECLASS(got),
                   map |-> Touch(m, item.items[2]),
                   fetched |-> IF cls.t = "class" /\ got # Raise("ValueError")
                               THEN <<[cls |-> cls.cls, id |-> item.items[3]]>>
                               ELSE <<>>]
    ELSE [val |-> None, map |-> m, fetched |-> <<>>]

\* The walk threads the cache through and lists the fetches it made; val is a
\* Raise record when the walk ended with an exception: [val, map, fetched].
RECURSIVE iter_id2db(_, _, _, _)
RECURSIVE id2db_each(_, _, _, _)
\* [iter_id2db(val) for val in q], left to right, stopping at the first exception
id2db_each(q, m, store, rev) ==
    IF q = <<>> THEN [items |-> <<>>, map |-> m, fetched |-> <<>>, err |-> None]
    ELSE LET h == iter_id2db(Head(q), m, store, rev)
         IN  IF h.val.t = "raise"
             THEN [items |-> <<>>, map |-> h.map, fetched |-> h.fetched, err |-> h.val]
             ELSE LET r == id2db_each(Tail(q), h.map, store, rev)
                  IN  [items |-> <<h.val>> \o r.items, map |-> r.map,
                       fetched |-> h.fetched \o r.fetched, err |-> r.err]
iter_id2db(item, m, store, rev) ==
    IF TypeOf(item) \in ScalarTypes
    THEN [val |-> item, map |-> m, fetched |-> <<>>]
    ELSE IF _IS_PACKED_DBOBJ(item)   \* must be done before the tuple check
    THEN resolve_packed(item, m, store)
    ELSE IF TypeOf(item) = "tuple"
    THEN LET r == id2db_each(item.items, m, store, rev)
         IN  [val |-> IF r.err.t = "raise" THEN r.err ELSE PyTuple(r.items),
              map |-> r.map, fetched |-> r.fetched]
    ELSE IF TypeOf(item) = "dict"
    THEN LET ks == KeysOf(item, rev)
             r == id2db_each([i \in 1..Len(ks) |-> item.d[ks[i]]], m, store, rev)
         IN  [val |-> IF r.err.t = "raise" THEN r.err
                      ELSE PyDict([k \in DOMAIN item.d |->
                                      r.items[CHOOSE i \in 1..Len(ks) : ks[i] = k]]),
              map |-> r.map, fetched |-> r.fetched]
    ELSE IF HasIter(item)
    THEN LET r == id2db_each(IterOf(item, rev), m, store, rev)
         IN  [val |-> IF r.err.t = "raise" THEN r.err ELSE PyList(r.items),
              map |-> r.map, fetched |-> r.fetched]
    ELSE [val |-> item, map |-> m, fetched |-> <<>>]

\* from_pickle with the commit moved behind the walk
from_pickle_committing_last(data, do_pickle, tm, order, store, rev) ==
    LET enumerate == ~Truthy(tm)
        m0 == IF enumerate THEN DictOf(EmptyMap, ToPairs(order)) ELSE tm.d
        loaded == IF do_pickle THEN _LOADS(data) ELSE data
        r == iter_id2db(loaded, m0, store, rev)
    IN  IF loaded.t = "raise"
        THEN [ret |-> loaded, map |-> DefaultDict(m0), events |-> <<"loads">>,
              fetched |-> <<>>, enumerated |-> enumerate]
        ELSE [ret |-> r.val, map |-> DefaultDict(r.map),
              events |-> (IF do_pickle THEN <<"loads">> ELSE <<>>)
                         \o [i \in 1..Len(r.fetched) |-> "fetch"] \o <<"commit">>,
              fetched |-> r.fetched, enumerated |-> enumerate]
\* from_pickle(data, do_pickle) with the cache value tm it starts from and the
\* storage it reads.  events lists, in order, what the call did to the database
\* and the input: "loads", "commit" and one "fetch" per entity lookup.
\* Returns [ret, map, events, fetched, enumerated].
from_pickle(data, do_pickle, tm, order, store, rev) ==
    LET enumerate == ~Truthy(tm)
        m0 == IF enumerate THEN DictOf(EmptyMap, ToPairs(order)) ELSE tm.d
        loaded == IF do_pickle THEN _LOADS(data) ELSE data
        r == iter_id2db(loaded, m0, store, rev)
    IN  IF loaded.t = "raise"
        THEN [ret |-> loaded, map |-> DefaultDict(m0), events |-> <<"loads">>,
              fetched |-> <<>>, enumerated |-> enumerate]
        ELSE [ret |-> r.val, map |-> DefaultDict(r.map),
              events |-> (IF do_pickle THEN <<"loads">> ELSE <<>>) \o <<"commit">>
                         \o [i \in 1..Len(r.fetched) |-> "fetch"],
              fetched |-> r.fetched, enumerated |-> enumerate]

----------------------------------------------------------------------------
(* Text: dbref and crop.  Here a string is the sequence of its characters. *)

\* a str (u = FALSE: the characters are bytes) or a unicode object (u = TRUE)
PyText(u, q) == [t |-> "text", u |-> u, chars |-> q]
\* the UTF-8 bytes of a character: one byte for ASCII, two for e-acute ("eacute")
Utf8(c) == IF c = "eacute" THEN <<"\\xc3", "\\xa9">> ELSE <<c>>
RECURSIVE Encode8(_)
Encode8(q) == IF q = <<>> THEN <<>> ELSE Utf8(Head(q)) \o Encode8(Tail(q))
\* to_str(obj): a unicode object is encoded to its UTF-8 bytes, anything else
\* is let through
to_str(obj) == IF obj.t = "text" /\ obj.u THEN PyText(FALSE, Encode8(obj.chars)) ELSE obj
\* text[:k] as Python slices: a negative k counts from the end
SliceTo(q, k) ==
    LET n == IF k >= 0 THEN (IF k < Len(q) THEN k ELSE Len(q))
             ELSE (IF Len(q) + k > 0 THEN Len(q) + k ELSE 0)
    IN  SubSeq(q, 1, n)

\* crop(text, width, suffix), lines 62-73
crop(text, width, suffix) ==
    LET ltext == Len(to_str(text).chars)
    IN  IF ltext <= width THEN text
        ELSE LET lsuffix == Len(suffix.chars)
             IN  PyText(text.u \/ suffix.u,
                        SliceTo(text.chars, width - lsuffix) \o suffix.chars)

Digits == {"0", "1", "2"}
DigitValue(c) == CASE c = "0" -> 0 [] c = "1" -> 1 [] c = "2" -> 2
IsNumeral(q) == q # <<>> /\ \A i \in 1..Len(q) : q[i] \in Digits
RECURSIVE NumeralValue(_)
NumeralValue(q) == IF q = <<>> THEN 0 ELSE 10 * NumeralValue(SubSeq(q, 1, Len(q) - 1)) + DigitValue(q[Len(q)])
\* int(s) of a string: an optional sign and decimal digits, ValueError otherwise
IntOf(q) ==
    IF IsNumeral(q) THEN PyInt(NumeralValue(q))
    ELSE IF q # <<>> /\ Head(q) = "-" /\ IsNumeral(Tail(q)) THEN PyInt(0 - NumeralValue(Tail(q)))
    ELSE Raise("ValueError")
\* s.lstrip('#'): every leading '#' is removed
RECURSIVE LStripHash(_)
LStripHash(q) == IF q # <<>> /\ Head(q) = "#" THEN LStripHash(Tail(q)) ELSE q
\* isinstance(v, basestring)
IsBasestring(v) == v.t = "text"
\* dbref(dbref, reqhash), lines 288-305
dbref(v, reqhash) ==
    IF reqhash /\ ~(IsBasestring(v) /\ v.chars # <<>> /\ Head(v.chars) = "#") THEN None
    ELSE IF IsBasestring(v)
    THEN LET n == IntOf(LStripHash(v.chars))
         IN  IF n.t = "raise" THEN None
             ELSE IF n.i < 1 THEN None
             ELSE n
    ELSE None

----------------------------------------------------------------------------
(* delay: a call scheduled on the Twisted reactor.                         *)

\* a callable
PyFunc(name) == [t |-> "function", name |-> name]
\* d.callback, the bound method that fires the deferred delay() returns
DCallback == PyFunc("d.callback")
\* delay(delay, retval, callback) at reactor time now: the call it hands to
\* reactor.callLater -- callb = callback or d.callback
delay(secs, retval, callback, now) ==
    [time |-> now + secs,
     fn |-> IF Truthy(callback) THEN callback ELSE DCallback,
     arg |-> retval]

----------------------------------------------------------------------------
(* The walkers over the heap.  Lists, tuples and dicts are objects: a cell  *)
(* of the heap at an address.  A slot (an element, a dict value, an         *)
(* argument) holds a reference to a cell, or a value that is no container.  *)
(* Dict keys are kept by value.                                            *)

\* the object a slot holds
At(h, s) == IF s.t = "ref" THEN h[s.a] ELSE s
\* the value a slot stands for: its container with every reference followed
RECURSIVE Reify(_, _)
Reify(h, s) ==
    LET c == At(h, s)
    IN  IF s.t # "ref" THEN s
        ELSE IF c.t = "dict" THEN [t |-> "dict", d |-> [k \in DOMAIN c.d |-> Reify(h, c.d[k])], sub |-> c.sub]
        ELSE [t |-> c.t, items |-> [i \in 1..Len(c.items) |-> Reify(h, c.items[i])], sub |-> c.sub]
\* a container built by overwriting the container src it was made from
NewCellInPlace(h, src, cell) == [heap |-> [h EXCEPT ![src] = cell], slot |-> [t |-> "ref", a |-> src]]
\* tuple(...), dict(...), [...] at lines 545, 547, 549 and 597, 599, 600: the
\* container rebuilt from the one at address src is a new object
NewCell(h, src, cell) == [heap |-> Append(h, cell), slot |-> [t |-> "ref", a |-> Len(h) + 1]]
\* the value v laid out on the heap: its containers become new cells
RECURSIVE Place(_, _)
RECURSIVE PlaceEach(_, _)
PlaceEach(h, q) ==
    IF q = <<>> THEN [heap |-> h, slots |-> <<>>]
    ELSE LET p == Place(h, Head(q))
             r == PlaceEach(p.heap, Tail(q))
         IN  [heap |-> r.heap, slots |-> <<p.slot>> \o r.slots]
Place(h, v) ==
    IF v.t \in {"tuple", "list"}
    THEN LET r == PlaceEach(h, v.items)
         IN  [heap |-> Append(r.heap, [t |-> v.t, items |-> r.slots, sub |-> v.sub]),
              slot |-> [t |-> "ref", a |-> Len(r.heap) + 1]]
    ELSE IF v.t = "dict"
    THEN LET ks == SeqOf(DOMAIN v.d)
             r == PlaceEach(h, [i \in 1..Len(ks) |-> v.d[ks[i]]])
         IN  [heap |-> Append(r.heap,
                              [t |-> "dict", sub |-> v.sub,
                               d |-> [k \in DOMAIN v.d |->
                                         r.slots[CHOOSE i \in 1..Len(ks) : ks[i] = k]]]),
              slot |-> [t |-> "ref", a |-> Len(r.heap) + 1]]
    ELSE [heap |-> h, slot |-> v]

\* iter_db2id (lines 539-555) on the heap: [slot, heap, map]
RECURSIVE heap_db2id(_, _, _, _)
RECURSIVE heap_db2id_each(_, _, _, _)
heap_db2id_each(q, h, m, rev) ==
    IF q = <<>> THEN [slots |-> <<>>, heap |-> h, map |-> m]
    ELSE LET x == heap_db2id(Head(q), h, m, rev)
             r == heap_db2id_each(Tail(q), x.heap, x.map, rev)
         IN  [slots |-> <<x.slot>> \o r.slots, heap |-> r.heap, map |-> r.map]
heap_db2id(s, h, m, rev) ==
    LET item == At(h, s)
    IN  IF TypeOf(item) \in ScalarTypes
        THEN [slot |-> s, heap |-> h, map |-> m]
        ELSE IF TypeOf(item) = "tuple"
        THEN LET r == heap_db2id_each(item.items, h, m, rev)
                 n == NewCell(r.heap, s.a, [t |-> "tuple", items |-> r.slots, sub |-> FALSE])
             IN  [slot |-> n.slot, heap |-> n.heap, map |-> r.map]
        ELSE IF TypeOf(item) = "dict"
        THEN LET ks == KeysOf(item, rev)
                 r == heap_db2id_each([i \in 1..Len(ks) |-> item.d[ks[i]]], h, m, rev)
                 n == NewCell(r.heap, s.a,
                              [t |-> "dict", sub |-> FALSE,
                               d |-> [k \in DOMAIN item.d |->
                                         r.slots[CHOOSE i \in 1..Len(ks) : ks[i] = k]]])
             IN  [slot |-> n.slot, heap |-> n.heap, map |-> r.map]
        ELSE IF HasIter(item)
        THEN LET r == heap_db2id_each(IterOf(item, rev), h, m, rev)
                 n == NewCell(r.heap, s.a, [t |-> "list", items |-> r.slots, sub |-> FALSE])
             IN  [slot |-> n.slot, heap |-> n.heap, map |-> r.map]
        ELSE LET r == iter_db2id(item, m, rev)    \* lines 551-555: an object, or its token
                 p == Place(h, r.val)
             IN  [slot |-> p.slot, heap |-> p.heap, map |-> r.map]

\* iter_id2db (lines 585-601) on the heap: [slot, heap, map]; slot is a Raise
\* record when the walk ended with an exception
RECURSIVE heap_id2db(_, _, _, _, _)
RECURSIVE heap_id2db_each(_, _, _, _, _)
heap_id2db_each(q, h, m, store, rev) ==
    IF q = <<>> THEN [slots |-> <<>>, heap |-> h, map |-> m, err |-> None]
    ELSE LET x == heap_id2db(Head(q), h, m, store, rev)
         IN  IF x.slot.t = "raise"
             THEN [slots |-> <<>>, heap |-> x.heap, map |-> x.map, err |-> x.slot]
             ELSE LET r == heap_id2db_each(Tail(q), x.heap, x.map, store, rev)
                  IN  [slots |-> <<x.slot>> \o r.slots, heap |-> r.heap, map |-> r.map,
                       err |-> r.err]
heap_id2db(s, h, m, store, rev) ==
    LET item == At(h, s)
    IN  IF TypeOf(item) \in ScalarTypes
        THEN [slot |-> s, heap |-> h, map |-> m]
        ELSE IF _IS_PACKED_DBOBJ(item)
        THEN LET r == resolve_packed(Reify(h, s), m, store)
             IN  [slot |-> r.val, heap |-> h, map |-> r.map]
        ELSE IF TypeOf(item) = "tuple"
        THEN LET r == heap_id2db_each(item.items, h, m, store, rev)
                 n == NewCell(r.heap, s.a, [t |-> "tuple", items |-> r.slots, sub |-> FALSE])
             IN  IF r.err.t = "raise" THEN [slot |-> r.err, heap |-> r.heap, map |-> r.map]
                 ELSE [slot |-> n.slot, heap |-> n.heap, map |-> r.map]
        ELSE IF TypeOf(item) = "dict"
        THEN LET ks == KeysOf(item, rev)
                 r == heap_id2db_each([i \in 1..Len(ks) |-> item.d[ks[i]]], h, m, store, rev)
                 n == NewCell(r.heap, s.a,
                              [t |-> "dict", sub |-> FALSE,
                               d |-> [k \in DOMAIN item.d |->
                                         r.slots[CHOOSE i \in 1..Len(ks) : ks[i] = k]]])
             IN  IF r.err.t = "raise" THEN [slot |-> r.err, heap |-> r.heap, map |-> r.map]
                 ELSE [slot |-> n.slot, heap |-> n.heap, map |-> r.map]
        ELSE IF HasIter(item)
        THEN LET r == heap_id2db_each(IterOf(item, rev), h, m, store, rev)
                 n == NewCell(r.heap, s.a, [t |-> "list", items |-> r.slots, sub |-> FALSE])
             IN  IF r.err.t = "raise" THEN [slot |-> r.err, heap |-> r.heap, map |-> r.map]
                 ELSE [slot |-> n.slot, heap |-> n.heap, map |-> r.map]
        ELSE [slot |-> s, heap |-> h, map |-> m]

----------------------------------------------------------------------------
(* The values the callers pass in.                                         *)

Sentinel == PyStr("__packed_dbobj__")
Widget == PyObj(<<"game", "Widget">>, NoAttr, NoAttr)
\* the entities of storage, and the typeclass wrappers of those that have one
Entities == {Entity(r[1], r[2]) : r \in Rows}
Typeclasses == {TypeclassOf(e) : e \in {x \in Entities : HasTypeclass(x.cls)}}
Objects ==
    Entities \cup Typeclasses \cup
    { Widget,                                           \* no id, no dbobj
      PyObj(<<"game", "Widget">>, PyInt(1), NoAttr),    \* an id, but no model
      PyObj(<<"game", "Character">>, NoAttr, Widget),   \* a wrapper around a Widget
      PyObj(<<"a1", "Thing">>, None, NoAttr) }          \* a model instance not saved yet
Scalars == { PyInt(0), PyInt(1), PyFloat(1), PyBool(TRUE), PyBool(FALSE),
             PyStr(""), PyStr("a"), None }
\* sequences of at most n elements of S
SeqsUpTo(S, n) == UNION {[1..k -> S] : k \in 0..n}
PlainSeqs == SeqsUpTo({Sentinel, PyInt(1)}, MaxLen)
PlainDicts == {PyDict(f) : f \in UNION {[K -> {PyInt(1), PyStr("a")}] : K \in SUBSET {PyStr("a"), PyInt(2)}}}
\* 3-tuples that have the shape of a reference token
TokenLike == { _TO_PACKED_DBOBJ(k, i) :
                 k \in {natural_key(ct) : ct \in ContentTypes} \cup {PyStr("a")},
                 i \in {PyInt(0), PyInt(1), None} }
\* the example of the specification: {"a": [1, (e, "x"), {2: e}]}
Nested(e) ==
    PyDict((PyStr("a") :> PyList(<<PyInt(1), PyTuple(<<e, PyStr("x")>>), PyDict((PyInt(2) :> e))>>)))
\* x as a list element, a tuple element, a dict value and a dict key, and in
\* a list behind a token of a type key no directory holds
Holding(x) == { PyList(<<x>>), PyTuple(<<x, PyStr("x")>>),
                PyDict((PyStr("a") :> x)), PyDict((x :> PyInt(1))),
                PyList(<<_TO_PACKED_DBOBJ(PyStr("a"), PyInt(1)), x>>) }
Inputs ==
    Scalars \cup Objects \cup TokenLike
    \cup {PyTuple(q) : q \in PlainSeqs} \cup {PyList(q) : q \in PlainSeqs} \cup PlainDicts
    \cup UNION {Holding(x) : x \in Objects \cup TokenLike}
    \cup {Nested(e) : e \in Objects}
\* instances of subclasses of tuple, list and dict (a namedtuple, an OrderedDict)
SubTuple(q) == [t |-> "tuple", items |-> q, sub |-> TRUE]
SubList(q) == [t |-> "list", items |-> q, sub |-> TRUE]
SubDict(f) == [t |-> "dict", d |-> f, sub |-> TRUE]
SubclassInputs ==
    {SubTuple(q) : q \in SeqsUpTo({PyInt(1)}, MaxLen)}
    \cup {SubList(q) : q \in SeqsUpTo({PyInt(1)}, MaxLen)}
    \cup {SubDict(d.d) : d \in PlainDicts}
    \cup {SubTuple(<<e, PyStr("x")>>) : e \in Entities}
    \cup {SubDict((PyStr("a") :> e)) : e \in Entities}
    \cup {PyList(<<SubTuple(<<PyInt(1)>>)>>), PyTuple(<<SubDict((PyStr("a") :> PyInt(1)))>>)}
EncoderInputs == Inputs \cup SubclassInputs
\* tokens of every type key a directory row can give, and of one no row gives,
\* alone and at the positions of a container
StaleTokens == { _TO_PACKED_DBOBJ(k, i) :
                   k \in {natural_key(ct) : ct \in ContentTypes \cup {StaleType}} \cup {PyStr("a")},
                   i \in {PyInt(0), PyInt(1), None} }
StaleInputs ==
    StaleTokens \cup Entities
    \cup UNION {Holding(x) : x \in {tok \in StaleTokens : tok.items[3] = PyInt(1)}}
\* what dbref is called with: strings of at most MaxStr characters, and integers
DbrefInputs ==
    {[fn |-> "dbref", dbref |-> PyText(FALSE, q)] : q \in SeqsUpTo({"#", "-", "a"} \cup Digits, MaxStr)}
    \cup {[fn |-> "dbref", dbref |-> PyInt(n)] : n \in (0 - 1)..2}
    \cup {[fn |-> "dbref", dbref |-> None]}
\* what crop is called with: byte strings and unicode texts, widths and suffixes
CropInputs ==
    {[fn |-> "crop", text |-> PyText(u, q), width |-> w, suffix |-> PyText(FALSE, sfx)] :
        u \in BOOLEAN, q \in SeqsUpTo({"a", "eacute"}, MaxText), w \in 0..MaxWidth,
        sfx \in {<<>>, <<".">>, <<".", ".", ".">>}}
\* what delay is called with
DelayInputs ==
    {[fn |-> "delay", delay |-> n, retval |-> v, callback |-> f] :
        n \in 0..MaxDelay, v \in {None, PyInt(1), PyStr("a")},
        f \in {None, PyFunc("f"), PyFunc("g")}}
\* what the threads encode: an entity (one cache lookup) or a number (none)
ThreadInputs == {Entity(<<"a1", "Thing">>, 1), PyInt(1)}
\* the values laid out on the heap: containers that hold entities, tokens and
\* other containers
HeapInputs ==
    Entities \cup {PyInt(1), PyStr("a"), None}
    \cup UNION {Holding(e) \cup {Nested(e)} : e \in Entities}
    \cup UNION {Holding(tok) : tok \in {x \in TokenLike : x.items[3] = PyInt(1)}}
    \cup {PyList(<<PyList(<<PyInt(1)>>), _TO_PACKED_DBOBJ(PyStr("a"), PyInt(1))>>),
          PyList(<<PyInt(1), PyTuple(<<PyInt(1)>>)>>), SubDict((PyStr("a") :> PyInt(1)))}
\* the values of the callers that exercise the directory caches
DirectoryInputs ==
    {PyInt(1), PyStr("a"), PyObj(<<"game", "Widget">>, PyInt(1), NoAttr)} \cup Entities

----------------------------------------------------------------------------
(* The state machine.                                                      *)

ModelNames == {Lower(n) : n \in {"Thing", "Widget", "Character"}}

\* to_pickle(d, do_pickle, emptypickle) is called
ToPickle(d, do_pickle, emptypickle) ==
    \E order \in (IF Truthy(_FROM_MODEL_MAP) THEN {<<>>} ELSE Orders(directory)),
       rev \in BOOLEAN :
        LET r == to_pickle(d, do_pickle, emptypickle, _FROM_MODEL_MAP, order, rev)
        IN  /\ r.enumerated => enumerations.enc < MaxEnum
            /\ _FROM_MODEL_MAP' = r.map
            /\ enumerations' = IF r.enumerated
                               THEN [enumerations EXCEPT !.enc = @ + 1] ELSE enumerations
            /\ observed' = [n \in ModelNames |->
                              observed[n] \cup {p[2] : p \in {x \in r.looked : x[1] = PyStr(n)}}]
            /\ held' = d
            /\ call' = [op |-> "to_pickle", arg |-> d, do_pickle |-> do_pickle,
                        emptypickle |-> emptypickle, ret |-> r.ret,
                        enumerated |-> r.enumerated]
            /\ UNCHANGED <<_TO_MODEL_MAP, directory, storage>>
            /\ UNCHANGED others

\* from_pickle(d, do_pickle) is called; src is the to_pickle call that returned d:
\* its argument and flags
FromPickle(d, do_pickle, src) ==
    \E order \in (IF Truthy(_TO_MODEL_MAP) THEN {<<>>} ELSE Orders(directory)),
       rev \in BOOLEAN :
        LET r == from_pickle(d, do_pickle, _TO_MODEL_MAP, order, storage, rev)
        IN  /\ r.enumerated => enumerations.dec < MaxEnum
            /\ _TO_MODEL_MAP' = r.map
            /\ enumerations' = IF r.enumerated
                               THEN [enumerations EXCEPT !.dec = @ + 1] ELSE enumerations
            /\ call' = [op |-> "from_pickle", arg |-> d, do_pickle |-> do_pickle,
                        ret |-> r.ret, events |-> r.events, fetched |-> r.fetched,
                        store |-> storage, src |-> src]
            /\ UNCHANGED <<_FROM_MODEL_MAP, directory, storage, observed, held>>
            /\ UNCHANGED others

\* the caller encodes the value it holds
Encode == \E do_pickle \in BOOLEAN : ToPickle(held, do_pickle, TRUE)
\* a caller encodes any value
EncodeAny == \E d \in DirectoryInputs, do_pickle \in BOOLEAN : ToPickle(d, do_pickle, TRUE)
\* the caller decodes what the last to_pickle returned
Decode == /\ call.op = "to_pickle"
          /\ \E do_pickle \in BOOLEAN : FromPickle(call.ret, do_pickle,
                                     [arg |-> call.arg, do_pickle |-> call.do_pickle,
                                      emptypickle |-> call.emptypickle])

\* the caller encodes the value it holds, with any flags
EncodeFlags == \E do_pickle \in BOOLEAN, emptypickle \in BOOLEAN :
                   ToPickle(held, do_pickle, emptypickle)

\* an entity is deleted from the database
DeleteEntity ==
    \E r \in storage :
        /\ storage' = storage \ {r}
        /\ UNCHANGED <<_FROM_MODEL_MAP, _TO_MODEL_MAP, directory, enumerations, observed, held, call>>
        /\ UNCHANGED others

\* the ContentType table gains or loses a row (an app is installed or removed)
DirectoryChange ==
    \E ct \in ContentTypes :
        /\ directory' = IF ct \in directory THEN directory \ {ct} ELSE directory \cup {ct}
        /\ UNCHANGED <<_FROM_MODEL_MAP, _TO_MODEL_MAP, storage, enumerations, observed, held, call>>
        /\ UNCHANGED others

\* no delayed call, no thread inside to_pickle, no container on the heap
Idle ==
    /\ reactor = [clock |-> 0, pending |-> {}, fired |-> FALSE, result |-> None, called |-> <<>>]
    /\ threads = <<>>
    /\ heap = <<>>

InitWith(S) ==
    /\ _FROM_MODEL_MAP = None
    /\ _TO_MODEL_MAP = None
    /\ directory \in SUBSET ContentTypes
    /\ storage = Rows
    /\ enumerations = [enc |-> 0, dec |-> 0]
    /\ observed = [n \in ModelNames |-> {}]
    /\ held \in S
    /\ call = [op |-> "none"]
    /\ Idle

\* One caller: it holds a value, encodes it, and decodes the result, while
\* entities are deleted.
Init == InitWith(Inputs)
Next == Encode \/ Decode \/ DeleteEntity
Spec == Init /\ [][Next]_vars

\* Many callers over the life of the process, while the directory changes.
InitDirectory == InitWith({None})
NextDirectory == EncodeAny \/ Decode \/ DirectoryChange
SpecDirectory == InitDirectory /\ [][NextDirectory]_vars

\* One caller that encodes the value it holds with every combination of flags.
InitEncoder == InitWith(EncoderInputs)
NextEncoder == EncodeFlags
SpecEncoder == InitEncoder /\ [][NextEncoder]_vars

\* One caller that decodes tokens while the directory also holds a row without
\* a model class.
InitStale ==
    /\ _FROM_MODEL_MAP = None
    /\ _TO_MODEL_MAP = None
    /\ directory \in SUBSET (ContentTypes \cup {StaleType})
    /\ storage = Rows
    /\ enumerations = [enc |-> 0, dec |-> 0]
    /\ observed = [n \in ModelNames |-> {}]
    /\ held \in StaleInputs
    /\ call = [op |-> "none"]
    /\ Idle
NextStale == Encode \/ Decode \/ DeleteEntity
SpecStale == InitStale /\ [][NextStale]_vars

\* dbref(held.dbref, reqhash) is called
Dbref ==
    /\ held.fn = "dbref"
    /\ \E reqhash \in BOOLEAN :
          call' = [op |-> "dbref", arg |-> held.dbref, reqhash |-> reqhash,
                   ret |-> dbref(held.dbref, reqhash)]
    /\ UNCHANGED <<_FROM_MODEL_MAP, _TO_MODEL_MAP, directory, storage, enumerations, observed, held>>
    /\ UNCHANGED others
\* crop(held.text, held.width, held.suffix) is called
Crop ==
    /\ held.fn = "crop"
    /\ call' = [op |-> "crop", text |-> held.text, width |-> held.width, suffix |-> held.suffix,
                ret |-> crop(held.text, held.width, held.suffix)]
    /\ UNCHANGED <<_FROM_MODEL_MAP, _TO_MODEL_MAP, directory, storage, enumerations, observed, held>>
    /\ UNCHANGED others

\* A caller of the text helpers: it holds the arguments of one call.
InitText ==
    /\ _FROM_MODEL_MAP = None
    /\ _TO_MODEL_MAP = None
    /\ directory = {}
    /\ storage = Rows
    /\ enumerations = [enc |-> 0, dec |-> 0]
    /\ observed = [n \in ModelNames |-> {}]
    /\ held \in DbrefInputs \cup CropInputs
    /\ call = [op |-> "none"]
    /\ Idle
NextText == Dbref \/ Crop
SpecText == InitText /\ [][NextText]_vars

\* delay(held.delay, held.retval, held.callback) is called: a fresh deferred is
\* returned and one call is scheduled
Delay ==
    /\ held.fn = "delay"
    /\ call.op = "none"
    /\ reactor' = [reactor EXCEPT
                     !.pending = @ \cup {delay(held.delay, held.retval, held.callback, reactor.clock)},
                     !.fired = FALSE, !.result = None]
    /\ call' = [op |-> "delay", delay |-> held.delay, retval |-> held.retval,
                callback |-> held.callback, at |-> reactor.clock]
    /\ UNCHANGED <<_FROM_MODEL_MAP, _TO_MODEL_MAP, directory, storage, enumerations, observed, held,
                   threads, heap>>
\* a second passes on the reactor's clock
Tick ==
    /\ reactor.clock < MaxClock
    /\ reactor' = [reactor EXCEPT !.clock = @ + 1]
    /\ UNCHANGED <<_FROM_MODEL_MAP, _TO_MODEL_MAP, directory, storage, enumerations, observed, held,
                   call, threads, heap>>
\* the reactor runs a delayed call that is due: d.callback fires the deferred
\* with the argument, any other callable is just called with it
RunCall ==
    /\ \E c \in reactor.pending :
          /\ c.time <= reactor.clock
          /\ reactor' = IF c.fn = DCallback
                        THEN [reactor EXCEPT !.pending = @ \ {c}, !.fired = TRUE, !.result = c.arg]
                        ELSE [reactor EXCEPT !.pending = @ \ {c},
                                             !.called = Append(@, [fn |-> c.fn, arg |-> c.arg])]
    /\ UNCHANGED <<_FROM_MODEL_MAP, _TO_MODEL_MAP, directory, storage, enumerations, observed, held,
                   call, threads, heap>>

\* A caller of delay, and the reactor.
InitDelay ==
    /\ _FROM_MODEL_MAP = None
    /\ _TO_MODEL_MAP = None
    /\ directory = {}
    /\ storage = Rows
    /\ enumerations = [enc |-> 0, dec |-> 0]
    /\ observed = [n \in ModelNames |-> {}]
    /\ held \in DelayInputs
    /\ call = [op |-> "none"]
    /\ Idle
NextDelay == Delay \/ Tick \/ RunCall
SpecDelay == InitDelay /\ [][NextDelay]_vars

----------------------------------------------------------------------------
(* Threads inside to_pickle (run_async defers calls to threads, line 699).  *)
(* Here the global _FROM_MODEL_MAP holds None or a reference to a cache     *)
(* object on the heap, and a thread can be switched between any two steps.  *)

Tids == 1..2
\* a reference to the object at address a of the heap
Ref(a) == [t |-> "ref", a |-> a]
\* the object a global holds: None, or the one its reference points to
Deref(v) == IF v.t = "ref" THEN heap[v.a] ELSE v
\* a thread that is not inside to_pickle
IdleThread == [pc |-> "idle", arg |-> None, obj |-> 0, pairs |-> <<>>, ret |-> None, unfilled |-> FALSE]

\* thread t calls to_pickle(d, do_pickle=False)
Start(t) ==
    /\ threads.of[t].pc = "idle"
    /\ \E d \in ThreadInputs :
          threads' = [of |-> [threads.of EXCEPT ![t] = [IdleThread EXCEPT !.pc = "test", !.arg = d]],
                      first |-> IF threads.first = "none" THEN "alone"
                                ELSE IF threads.first = "alone" THEN "overlap"
                                ELSE threads.first,
                      by |-> IF threads.first = "none" THEN t ELSE threads.by]
    /\ UNCHANGED <<_FROM_MODEL_MAP, _TO_MODEL_MAP, directory, storage, enumerations, observed, held,
                   call, reactor, heap>>
\* line 535: if not _FROM_MODEL_MAP
Test(t) ==
    /\ threads.of[t].pc = "test"
    /\ threads' = [threads EXCEPT !.of[t].pc =
                      IF Truthy(Deref(_FROM_MODEL_MAP)) THEN "walk" ELSE "new"]
    /\ UNCHANGED <<_FROM_MODEL_MAP, _TO_MODEL_MAP, directory, storage, enumerations, observed, held,
                   call, reactor, heap>>
\* line 536: _FROM_MODEL_MAP = defaultdict(str) -- a new, empty object
New(t) ==
    /\ threads.of[t].pc = "new"
    /\ Len(heap) < MaxObjs
    /\ heap' = Append(heap, [t |-> "defaultdict", d |-> EmptyMap, filled |-> FALSE])
    /\ _FROM_MODEL_MAP' = Ref(Len(heap) + 1)
    /\ threads' = [threads EXCEPT !.of[t].pc = "load"]
    /\ UNCHANGED <<_TO_MODEL_MAP, directory, storage, enumerations, observed, held, call, reactor>>
\* line 537, _FROM_MODEL_MAP.update: the global is read and the method bound
\* to the object it holds now
Load(t) ==
    /\ threads.of[t].pc = "load"
    /\ threads' = [threads EXCEPT !.of[t].pc = "query", !.of[t].obj = _FROM_MODEL_MAP.a]
    /\ UNCHANGED <<_FROM_MODEL_MAP, _TO_MODEL_MAP, directory, storage, enumerations, observed, held,
                   call, reactor, heap>>
\* line 537, the argument: dict((c.model, c.natural_key()) for c in ContentType.objects.all())
Query(t) ==
    /\ threads.of[t].pc = "query"
    /\ \E order \in Orders(directory) :
          threads' = [threads EXCEPT !.of[t].pc = "update", !.of[t].pairs = FromPairs(order)]
    /\ UNCHANGED <<_FROM_MODEL_MAP, _TO_MODEL_MAP, directory, storage, enumerations, observed, held,
                   call, reactor, heap>>
\* line 537, the call: the object the method was bound to is filled
Update(t) ==
    /\ threads.of[t].pc = "update"
    /\ heap' = [heap EXCEPT ![threads.of[t].obj] =
                   [@ EXCEPT !.d = DictOf(@, threads.of[t].pairs), !.filled = TRUE]]
    /\ threads' = [threads EXCEPT !.of[t].pc = "walk", !.of[t].pairs = <<>>]
    /\ UNCHANGED <<_FROM_MODEL_MAP, _TO_MODEL_MAP, directory, storage, enumerations, observed, held,
                   call, reactor>>
\* line 557: data = iter_db2id(data); the lookup of line 552 reads the global
\* and looks up in the object it holds now
Walk(t) ==
    /\ threads.of[t].pc = "walk"
    /\ LET a == _FROM_MODEL_MAP.a
           r == iter_db2id(threads.of[t].arg, heap[a].d, FALSE)
       IN  /\ heap' = [heap EXCEPT ![a].d = r.map]
           /\ threads' = [threads EXCEPT !.of[t].pc = "done", !.of[t].ret = r.val,
                                         !.of[t].unfilled = (r.looked # {} /\ ~heap[a].filled)]
    /\ UNCHANGED <<_FROM_MODEL_MAP, _TO_MODEL_MAP, directory, storage, enumerations, observed, held,
                   call, reactor>>
\* line 561: return data
Return(t) ==
    /\ threads.of[t].pc = "done"
    /\ call' = [op |-> "to_pickle", arg |-> threads.of[t].arg, do_pickle |-> FALSE,
                emptypickle |-> FALSE, ret |-> threads.of[t].ret, enumerated |-> threads.of[t].obj # 0]
    /\ threads' = [of |-> [threads.of EXCEPT ![t] = IdleThread],
                   first |-> IF threads.first = "alone" /\ threads.by = t
                             THEN "solo" ELSE threads.first,
                   by |-> threads.by]
    /\ UNCHANGED <<_FROM_MODEL_MAP, _TO_MODEL_MAP, directory, storage, enumerations, observed, held,
                   reactor, heap>>
\* the ContentType table changes while threads run
ThreadsDirectoryChange ==
    /\ \E ct \in ContentTypes :
          directory' = IF ct \in directory THEN directory \ {ct} ELSE directory \cup {ct}
    /\ UNCHANGED <<_FROM_MODEL_MAP, _TO_MODEL_MAP, storage, enumerations, observed, held, call,
                   reactor, threads, heap>>

\* Two threads that call to_pickle again and again.  threads.first tells how
\* the first call went: "alone" while thread threads.by is making it and no
\* other call has begun, "solo" once it returned before any other call began,
\* "overlap" when another call began before it returned.
InitThreads ==
    /\ _FROM_MODEL_MAP = None
    /\ _TO_MODEL_MAP = None
    /\ directory \in SUBSET ContentTypes
    /\ storage = Rows
    /\ enumerations = [enc |-> 0, dec |-> 0]
    /\ observed = [n \in ModelNames |-> {}]
    /\ held = None
    /\ call = [op |-> "none"]
    /\ reactor = [clock |-> 0, pending |-> {}, fired |-> FALSE, result |-> None, called |-> <<>>]
    /\ threads = [of |-> [t \in Tids |-> IdleThread], first |-> "none", by |-> 0]
    /\ heap = <<>>
NextThreads ==
    \/ \E t \in Tids : Start(t) \/ Test(t) \/ New(t) \/ Load(t) \/ Query(t) \/ Update(t)
                        \/ Walk(t) \/ Return(t)
    \/ ThreadsDirectoryChange
SpecThreads == InitThreads /\ [][NextThreads]_vars

----------------------------------------------------------------------------
(* One caller whose value lies on the heap: held is the slot it passes.     *)

\* to_pickle(held, do_pickle=False): the first call of the caller
HeapEncode ==
    /\ call.op = "none"
    /\ \E order \in (IF Truthy(_FROM_MODEL_MAP) THEN {<<>>} ELSE Orders(directory)),
          rev \in BOOLEAN :
          LET m0 == IF Truthy(_FROM_MODEL_MAP) THEN _FROM_MODEL_MAP.d
                    ELSE DictOf(EmptyMap, FromPairs(order))
              r == heap_db2id(held, heap, m0, rev)
          IN  /\ heap' = r.heap
              /\ _FROM_MODEL_MAP' = DefaultDict(r.map)
              /\ call' = [op |-> "to_pickle", arg |-> held, do_pickle |-> FALSE,
                          emptypickle |-> TRUE, ret |-> r.slot, before |-> heap]
    /\ UNCHANGED <<_TO_MODEL_MAP, directory, storage, enumerations, observed, held, reactor, threads>>
\* from_pickle(x, do_pickle=False) of the value the caller holds or of what
\* to_pickle returned: the last call of the caller
HeapDecode ==
    /\ call.op \in {"none", "to_pickle"}
    /\ \E x \in {held} \cup (IF call.op = "to_pickle" THEN {call.ret} ELSE {}),
          order \in (IF Truthy(_TO_MODEL_MAP) THEN {<<>>} ELSE Orders(directory)),
          rev \in BOOLEAN :
          LET m0 == IF Truthy(_TO_MODEL_MAP) THEN _TO_MODEL_MAP.d
                    ELSE DictOf(EmptyMap, ToPairs(order))
              r == heap_id2db(x, heap, m0, storage, rev)
          IN  /\ heap' = r.heap
              /\ _TO_MODEL_MAP' = DefaultDict(r.map)
              /\ call' = [op |-> "from_pickle", arg |-> x, do_pickle |-> FALSE,
                          ret |-> r.slot, before |-> heap, store |-> storage]
    /\ UNCHANGED <<_FROM_MODEL_MAP, directory, storage, enumerations, observed, held, reactor, threads>>
\* an entity is deleted from the database
HeapDeleteEntity ==
    /\ \E r \in storage : storage' = storage \ {r}
    /\ UNCHANGED <<_FROM_MODEL_MAP, _TO_MODEL_MAP, directory, enumerations, observed, held, call,
                   reactor, threads, heap>>

InitHeap ==
    /\ _FROM_MODEL_MAP = None
    /\ _TO_MODEL_MAP = None
    /\ directory \in SUBSET ContentTypes
    /\ storage = Rows
    /\ enumerations = [enc |-> 0, dec |-> 0]
    /\ observed = [n \in ModelNames |-> {}]
    /\ \E v \in HeapInputs : /\ held = Place(<<>>, v).slot
                              /\ heap = Place(<<>>, v).heap
    /\ call = [op |-> "none"]
    /\ reactor = [clock |-> 0, pending |-> {}, fired |-> FALSE, result |-> None, called |-> <<>>]
    /\ threads = <<>>
NextHeap == HeapEncode \/ HeapDecode \/ HeapDeleteEntity
SpecHeap == InitHeap /\ [][NextHeap]_vars

----------------------------------------------------------------------------
(* Vocabulary of the properties.                                           *)

\* the value the last from_pickle call walked: its input, unpickled when asked
Walked == IF call.do_pickle THEN _LOADS(call.arg) ELSE call.arg
\* the last call is a from_pickle of what to_pickle returned, both calls made
\* with the same do_pickle flag
RoundTrip == call.op = "from_pickle" /\ call.src.do_pickle = call.do_pickle
\* two objects stand for the same entity: the same model instance underneath
SameEntity(a, b) == a.t = "obj" /\ b.t = "obj" /\ _TO_DBOBJ(a) = _TO_DBOBJ(b)
\* e is a saved entity whose concrete type the directory knows
KnownEntity(e) == e \in Entities /\ Truthy(key_of(e.cls, directory))
\* the storage row an entity is kept in
RowOf(e) == <<e.cls, e.id.i>>
\* built only from strings, integers, floats, booleans, lists, tuples and dicts
RECURSIVE IsPlain(_)
IsPlain(v) ==
    CASE v.t \in {"int", "float", "bool", "str"} -> TRUE
      [] v.t \in {"tuple", "list"} -> ~v.sub /\ \A i \in 1..Len(v.items) : IsPlain(v.items[i])
      [] v.t = "dict" -> ~v.sub /\ \A k \in DOMAIN v.d : IsPlain(k) /\ IsPlain(v.d[k])
      [] OTHER -> FALSE
\* the nodes of v that have the shape of a reference token, at any depth,
\* dict keys included
RECURSIVE AllTokens(_)
AllTokens(v) ==
    IF _IS_PACKED_DBOBJ(v) THEN {v}
    ELSE IF v.t \in {"tuple", "list"} THEN UNION {AllTokens(v.items[i]) : i \in 1..Len(v.items)}
    ELSE IF v.t = "dict" THEN UNION {AllTokens(k) \cup AllTokens(v.d[k]) : k \in DOMAIN v.d}
    ELSE {}
\* the token-shaped nodes among the elements of lists and tuples and the values
\* of dicts, at any depth: the positions a walk visits
RECURSIVE WalkedTokens(_)
WalkedTokens(v) ==
    IF _IS_PACKED_DBOBJ(v) THEN {v}
    ELSE IF v.t \in {"tuple", "list"} THEN UNION {WalkedTokens(v.items[i]) : i \in 1..Len(v.items)}
    ELSE IF v.t = "dict" /\ ~v.sub THEN UNION {WalkedTokens(v.d[k]) : k \in DOMAIN v.d}
    ELSE IF v.t = "dict" THEN UNION {WalkedTokens(k) : k \in DOMAIN v.d}
    ELSE {}
\* the objects of v at any depth, dict keys included
RECURSIVE AllObjects(_)
AllObjects(v) ==
    IF v.t = "obj" THEN {v}
    ELSE IF v.t \in {"tuple", "list"} THEN UNION {AllObjects(v.items[i]) : i \in 1..Len(v.items)}
    ELSE IF v.t = "dict" THEN UNION {AllObjects(k) \cup AllObjects(v.d[k]) : k \in DOMAIN v.d}
    ELSE {}
\* a and b have the same shape, with the same entities in the same places
RECURSIVE ShapeEq(_, _)
ShapeEq(a, b) ==
    IF a.t # b.t THEN FALSE
    ELSE IF a.t = "obj" THEN SameEntity(a, b)
    ELSE IF a.t \in {"tuple", "list"}
    THEN Len(a.items) = Len(b.items) /\ \A i \in 1..Len(a.items) : ShapeEq(a.items[i], b.items[i])
    ELSE IF a.t = "dict"
    THEN DOMAIN a.d = DOMAIN b.d /\ \A k \in DOMAIN a.d : ShapeEq(a.d[k], b.d[k])
    ELSE a = b

----------------------------------------------------------------------------
(* C1: reference round trip.                                               *)

\* C1: for every saved entity e of a type the directory knows, to_pickle(e)
\* is the token ('__packed_dbobj__', key_of(type(e)), e.id), and from_pickle of
\* it returns an entity equal to e when e is still in storage -- whatever set
\* of types the directory holds, same-named classes of two apps included.
C1_ReferenceRoundTrip ==
    /\ (call.op = "to_pickle" /\ ~call.do_pickle /\ KnownEntity(call.arg))
          => call.ret = _TO_PACKED_DBOBJ(key_of(call.arg.cls, directory), call.arg.id)
    /\ (RoundTrip /\ ~call.do_pickle /\ KnownEntity(call.src.arg)
           /\ RowOf(call.src.arg) \in call.store)
          => SameEntity(call.ret, call.src.arg)

(* C2: plain-value round trip.                                             *)

\* C2: for every value built only of strings, integers, floats, booleans,
\* lists, tuples and dicts, from_pickle(to_pickle(v)) = v.
C2_PlainRoundTrip ==
    (RoundTrip /\ IsPlain(call.src.arg)) => call.ret = call.src.arg

----------------------------------------------------------------------------
(* C3: decoding a stale reference.                                         *)

\* the class the decoder's cache holds for a type key ('' when it holds none)
DecoderClass(k) ==
    IF _TO_MODEL_MAP.t = "defaultdict" /\ Hashable(k) THEN Lookup(_TO_MODEL_MAP.d, k) ELSE PyStr("")
\* tok names, by a truthy integer identity and a type key the directory knows,
\* an entity that was not in storage when the last from_pickle ran
Stale(tok) ==
    /\ tok.items[3].t = "int" /\ Truthy(tok.items[3])
    /\ \E ct \in directory : natural_key(ct) = tok.items[2]
    /\ DecoderClass(tok.items[2]).t = "class"
    /\ <<DecoderClass(tok.items[2]).cls, tok.items[3].i>> \notin call.store
\* tok has a truthy identity and fails to resolve for another reason than a
\* missing entity: no class for its type key, or an identity that is no number
FailsOtherwise(tok) ==
    /\ Truthy(tok.items[3])
    /\ \/ DecoderClass(tok.items[2]).t # "class"
       \/ tok.items[3].t \notin {"int", "bool", "float"}

\* C3 as claimed: if a token of a known type key and truthy identity names a
\* deleted entity, from_pickle on any structure containing the token at any
\* depth ends with the NotFound error.
C3_StaleAnywhereRaisesNotFound ==
    (call.op = "from_pickle" /\ Walked.t # "raise"
        /\ \E tok \in AllTokens(Walked) : Stale(tok))
    => call.ret = Raise("DoesNotExist")

\* C3 amended: if such a token sits where the walk visits (an element of a
\* list or tuple or a value of a dict, at any depth; not a dict key),
\* from_pickle ends with an error and returns no value; the error is the
\* NotFound error unless the structure holds, at a visited position, a token
\* that fails for another reason.
C3_StaleWalkedRaises ==
    (call.op = "from_pickle" /\ Walked.t # "raise"
        /\ \E tok \in WalkedTokens(Walked) : Stale(tok))
    => /\ call.ret.t = "raise"
       /\ (\A tok \in WalkedTokens(Walked) : ~FailsOtherwise(tok))
             => call.ret = Raise("DoesNotExist")

\* a from_pickle of a dict that holds a stale token as a value has raised NotFound
C3_Witness ==
    /\ call.op = "from_pickle" /\ Walked.t = "dict"
    /\ \E tok \in WalkedTokens(Walked) : Stale(tok)
    /\ call.ret = Raise("DoesNotExist")

(* C4: decoding an absent identity.                                        *)

\* C4: from_pickle of a token whose identity is falsy (0 or None) returns None,
\* whatever the type key, and fetches nothing from storage.
C4_AbsentIdentity ==
    (call.op = "from_pickle" /\ _IS_PACKED_DBOBJ(Walked) /\ ~Truthy(Walked.items[3]))
    => call.ret = None /\ call.fetched = <<>>

\* a token with identity 0 and a type key no directory holds was decoded to None
C4_Witness ==
    /\ call.op = "from_pickle" /\ _IS_PACKED_DBOBJ(Walked)
    /\ Walked.items[3] = PyInt(0) /\ Walked.items[2] = PyStr("a")
    /\ call.ret = None

(* C5: nested structure preservation.                                      *)

\* v is made of dicts, lists, tuples, integers and strings and holds saved
\* entities of directory-known types as list elements, tuple elements and dict
\* values
RECURSIVE NestedOfKnown(_)
NestedOfKnown(v) ==
    CASE v.t \in {"int", "str"} -> TRUE
      [] v.t = "obj" -> KnownEntity(v)
      [] v.t \in {"tuple", "list"} -> ~v.sub /\ \A i \in 1..Len(v.items) : NestedOfKnown(v.items[i])
      [] v.t = "dict" -> ~v.sub /\ \A k \in DOMAIN v.d : IsPlain(k) /\ NestedOfKnown(v.d[k])
      [] OTHER -> FALSE

\* C5: for every such nested value (its entities in storage, no token-shaped
\* tuple in it), to_pickle and then from_pickle restore the exact shape: the
\* same dicts with the same keys, lists and tuples of the same length and
\* order, and the original entity at each entity position.
C5_NestedPreserved ==
    (RoundTrip /\ ~call.do_pickle /\ NestedOfKnown(call.src.arg)
        /\ AllObjects(call.src.arg) # {} /\ AllTokens(call.src.arg) = {}
        /\ call.store = Rows)
    => ShapeEq(call.ret, call.src.arg)

(* C6: pass-through of objects of unknown type.                            *)

\* o is an object whose type, and the type of the dbobj it wraps if it wraps
\* one, has no key in the directory
UnknownType(o) ==
    /\ o.t = "obj"
    /\ ~Truthy(key_of(o.cls, directory))
    /\ (HasDbobj(o) /\ o.dbobj.t = "obj") => ~Truthy(key_of(o.dbobj.cls, directory))

\* C6: to_pickle without serialization returns an object of unknown type as
\* that very object, a wrapper around such an object included, and from_pickle
\* then returns it unchanged too.
C6_UnknownPassThrough ==
    /\ (call.op = "to_pickle" /\ ~call.do_pickle /\ UnknownType(call.arg))
          => call.ret = call.arg
    /\ (RoundTrip /\ ~call.do_pickle /\ UnknownType(call.src.arg))
          => call.ret = call.src.arg

(* C7: the encoder's output holds tokens in place of entities.             *)

\* the objects of v, at any depth, that are or wrap an entity of a type the
\* directory knows
LiveEntities(v) == {o \in AllObjects(v) : _TO_DBOBJ(o).t = "obj" /\ Truthy(key_of(_TO_DBOBJ(o).cls, directory))}

\* C7: what to_pickle (do_pickle=False) returns holds no live entity of a
\* directory-known type at any position, and an entity passed in has been
\* replaced by its own reference token.
C7_OnlyTokens ==
    (call.op = "to_pickle" /\ ~call.do_pickle)
    => /\ LiveEntities(call.ret) = {}
       /\ KnownEntity(call.arg)
             => call.ret = _TO_PACKED_DBOBJ(key_of(call.arg.cls, directory), call.arg.id)

(* C8: the commit barrier.                                                 *)

\* C8: in every from_pickle call the commit comes after the input was
\* unpickled (when do_pickle is set) and before the first fetch: no fetch
\* precedes the commit.
C8_CommitBarrier ==
    call.op = "from_pickle"
    => \A i \in 1..Len(call.events) :
          /\ call.events[i] = "fetch" => \E j \in 1..(i - 1) : call.events[j] = "commit"
          /\ call.events[i] = "loads" => \A j \in 1..(i - 1) : call.events[j] # "commit"
          /\ (call.events[i] = "commit" /\ call.do_pickle)
                => \E j \in 1..(i - 1) : call.events[j] = "loads"

\* an unpickling from_pickle call has committed and then fetched an entity
C8_Witness ==
    /\ call.op = "from_pickle" /\ call.do_pickle
    /\ call.events = <<"loads", "commit", "fetch">>

(* C9: each cache is built once.                                           *)

\* C9: over any sequence of calls, each of the two caches enumerates the
\* directory service exactly once, on first use, whatever that enumeration
\* returned: never a second time.
C9_EnumeratedOnce == enumerations.enc <= 1 /\ enumerations.dec <= 1

(* C10: lookups in the encoder's cache are idempotent.                     *)

\* C10: every lookup the encoder makes for one entity type returns the same
\* key (or the same 'absent'), in every call, whatever was looked up in
\* between and however the directory changed.
C10_LookupIdempotent == \A n \in ModelNames : Cardinality(observed[n]) <= 1

\* a to_pickle call that found its cache built has returned the token of an
\* entity whose type the directory no longer holds, after a lookup of an
\* unknown type
C10_Witness ==
    /\ call.op = "to_pickle" /\ ~call.enumerated /\ ~call.do_pickle
    /\ call.arg \in Entities /\ _IS_PACKED_DBOBJ(call.ret)
    /\ directory = {}
    /\ observed["widget"] = {PyStr("")}
    /\ Cardinality(observed["thing"]) = 1

----------------------------------------------------------------------------
(* C11: the directory is bidirectional.                                    *)

\* C11: whenever both caches are populated, for every concrete entity type t
\* that the encoder maps to a type key k, the decoder's cache maps k back to
\* t: key_to_type(type_to_key(t)) = t.
C11_Bidirectional ==
    (_FROM_MODEL_MAP.t = "defaultdict" /\ _TO_MODEL_MAP.t = "defaultdict")
    => \A c \in ModelClasses :
          LET k == Lookup(_FROM_MODEL_MAP.d, PyStr(Lower(c[2])))
          IN  Truthy(k) => DecoderClass(k) = PyClass(c)

----------------------------------------------------------------------------
(* C13: the flags do_pickle and emptypickle.                               *)

\* None and the empty string, list, tuple and dict
EmptyValues == {None, PyStr(""), PyList(<<>>), PyTuple(<<>>), PyDict(EmptyMap)}
\* v is None or empty (of a container type, or of a subclass of one)
IsEmpty(v) ==
    \/ v \in {None, PyStr("")}
    \/ v.t \in {"tuple", "list"} /\ v.items = <<>>
    \/ v.t = "dict" /\ DOMAIN v.d = {}

\* C13: with do_pickle and emptypickle both set every encoded result is
\* serialized; with do_pickle set and emptypickle cleared a result that is None
\* or empty comes back as that unserialized value, while False is still
\* serialized; with do_pickle cleared the result comes back unserialized
\* whatever emptypickle is.
C13_EmptyFlags ==
    call.op = "to_pickle" =>
        /\ (call.do_pickle /\ call.emptypickle) => call.ret.t = "pickle"
        /\ (call.do_pickle /\ ~call.emptypickle) =>
              /\ IsEmpty(call.arg) =>
                    /\ call.ret \in EmptyValues
                    /\ ~(call.arg.t \in {"tuple", "list", "dict"} /\ call.arg.sub)
                          => call.ret = call.arg
              /\ call.arg = PyBool(FALSE) =>
                    call.ret.t = "pickle" /\ _LOADS(call.ret) = PyBool(FALSE)
        /\ ~call.do_pickle => call.ret.t # "pickle"
\* False was encoded with emptypickle cleared, and was serialized
C13_Witness ==
    /\ call.op = "to_pickle" /\ call.do_pickle /\ ~call.emptypickle
    /\ call.arg = PyBool(FALSE) /\ call.ret.t = "pickle"

----------------------------------------------------------------------------
(* C17: how the encoder classifies the nodes of its input.                 *)

\* r is built like a, node by node: a mapping where a has a mapping, with the
\* same keys; a tuple where a has a tuple, of the same length; a list where a
\* has a list
RECURSIVE Classified(_, _)
Classified(a, r) ==
    IF a.t = "dict"
    THEN /\ r.t = "dict"
         /\ DOMAIN r.d = DOMAIN a.d
         /\ \A k \in DOMAIN a.d : Classified(a.d[k], r.d[k])
    ELSE IF a.t \in {"tuple", "list"}
    THEN /\ r.t = a.t
         /\ Len(r.items) = Len(a.items)
         /\ \A i \in 1..Len(a.items) : Classified(a.items[i], r.items[i])
    ELSE TRUE
\* C17: the encoder rebuilds every mapping node of its input as a mapping with
\* the same keys and every tuple node as a tuple of the same length, and only
\* the other iterables as lists; also where the node is an instance of a
\* subclass of dict or tuple.
C17_Classification ==
    (call.op = "to_pickle" /\ ~call.do_pickle) => Classified(call.arg, call.ret)

----------------------------------------------------------------------------
(* C18: a token of a type key the decoder knows no class for.              *)

\* tok has a truthy identity and a type key for which the decoder's cache
\* holds no entry, or an entry that is no class
UnknownKey(tok) ==
    Truthy(tok.items[3]) /\ DecoderClass(tok.items[2]).t # "class"

\* C18: from_pickle of a token with a truthy identity whose type key has no
\* entry in the decoder's cache, or an entry that resolves to no class, ends
\* with an error propagated to the caller: it returns neither None, nor the
\* token, nor an entity of another type.  The same holds where the token sits
\* at a position the walk visits.
C18_UnknownKeyRaises ==
    (call.op = "from_pickle" /\ Walked.t # "raise"
        /\ \E tok \in WalkedTokens(Walked) : UnknownKey(tok))
    => call.ret.t = "raise"
\* a token of the row without a model class was decoded, and the decoder's
\* cache holds None for its key
C18_Witness ==
    /\ call.op = "from_pickle"
    /\ Walked = _TO_PACKED_DBOBJ(natural_key(StaleType), PyInt(1))
    /\ DecoderClass(natural_key(StaleType)) = None
    /\ call.ret = Raise("AttributeError")

----------------------------------------------------------------------------
(* C15: dbref.                                                             *)

\* the number a valid database reference stands for, None for any other
\* input: '#N' and, when no hash is required, 'N' and the integer N, N >= 1
DbrefOf(v, reqhash) ==
    IF v.t = "text" /\ v.chars # <<>> /\ Head(v.chars) = "#" /\ IsNumeral(Tail(v.chars))
          /\ NumeralValue(Tail(v.chars)) >= 1
    THEN PyInt(NumeralValue(Tail(v.chars)))
    ELSE IF ~reqhash /\ v.t = "text" /\ IsNumeral(v.chars) /\ NumeralValue(v.chars) >= 1
    THEN PyInt(NumeralValue(v.chars))
    ELSE IF ~reqhash /\ v.t = "int" /\ v.i >= 1
    THEN v
    ELSE None

\* C15: dbref returns N (N >= 1) for the valid forms '#N' and integer N, and
\* None for any other input; with reqhash cleared both the string 'N' and the
\* integer N yield N, with reqhash set only '#N' is accepted.
C15_DbrefForms ==
    call.op = "dbref" => call.ret = DbrefOf(call.arg, call.reqhash)

----------------------------------------------------------------------------
(* C16: crop.                                                              *)

\* C16: for every text, width >= 0 and suffix, crop returns at most width
\* characters: a text no longer than width unchanged, a longer one cut so that
\* the cut text and the suffix together fit within width.
C16_CropFits ==
    call.op = "crop" =>
        /\ Len(call.ret.chars) <= call.width
        /\ Len(call.text.chars) <= call.width => call.ret = call.text

----------------------------------------------------------------------------
(* C14: delay.                                                             *)

\* C14: for every call of delay, with or without a callback, the deferred it
\* returned has fired with retval once the reactor has run the scheduled
\* call, which it does no sooner than the delay has elapsed; and a callback
\* that was given has been called with retval.
C14_DelayFires ==
    (call.op = "delay" /\ reactor.pending = {}) =>
        /\ reactor.clock >= call.at + call.delay
        /\ reactor.fired /\ reactor.result = call.retval
        /\ Truthy(call.callback) =>
              \E i \in 1..Len(reactor.called) :
                  reactor.called[i] = [fn |-> call.callback, arg |-> call.retval]

----------------------------------------------------------------------------
(* C12: the first use of the encoder's cache by several threads.           *)

\* C12, its first half: when one caller finished the first to_pickle before
\* any other caller started, every later caller reads a fully built cache --
\* no thread looks a type up in a cache object that has been created but not
\* yet filled.  (Its second half says that two concurrent first calls can
\* interleave so that a thread does.)
C12_SoloFirstUseIsSafe ==
    (threads.first \in {"alone", "solo"}) => \A t \in Tids : ~threads.of[t].unfilled

----------------------------------------------------------------------------
(* C19: the walkers do not modify their input.                             *)

\* C19: to_pickle and from_pickle (with do_pickle cleared) build new
\* containers and never modify the value they are given: after either call,
\* whether it returned or raised, every list, tuple and dict of the caller's
\* input holds exactly the elements, keys and values it held before the call,
\* and so does every other container that existed before the call.
C19_InputNotMutated ==
    call.op \in {"to_pickle", "from_pickle"} =>
        /\ Reify(heap, call.arg) = Reify(call.before, call.arg)
        /\ \A a \in 1..Len(call.before) : heap[a] = call.before[a]
\* from_pickle raised on a list after it had rebuilt a part of it
C19_Witness ==
    /\ call.op = "from_pickle" /\ call.ret.t = "raise"
    /\ At(call.before, call.arg).t = "list"
    /\ Len(heap) > Len(call.before)

====
